---------------------------- MODULE Spec2Model ----------------------------
(***************************************************************************)
(* A model of controller-fire (src/src/main.rs): the MIDI decoder          *)
(* ControllerEvent::from_midi, the LED SysEx frame kept by FireController, *)
(* and the main program: attach_to_all, the per-controller input callback  *)
(* feeding a bounded channel, and the consumer loop over a StreamMap.      *)
(*                                                                         *)
(* Bytes are written in decimal; the hexadecimal of the source is given in *)
(* the comments.                                                           *)
(***************************************************************************)
EXTENDS Integers, Sequences, FiniteSets, TLC

VARIABLES
    msg,          \* the raw message handed to from_midi (decoder runs)
    decoded,      \* what from_midi returned for msg, NotDecoded before the call
    pc,           \* position of the main task / of the API caller
    it,           \* the index of the for loop main or attach_to_all is in
    ports,        \* the system's MIDI ports (a duplex device each): name, present
    feed,         \* the messages the devices send in this run
    quota,        \* how many more event messages the devices send in this run
    handles,      \* the midir handles that are open
    desired_names,\* attach_to_all's desired_names
    controllers,  \* Vec<FireController>, indexed from 0
    chan,         \* per controller: the mpsc channel, buf and whether tx is alive
    cb,           \* per controller: the state of the input callback's thread
    map,          \* the StreamMap's entries: key -> channel
    produced,     \* per controller: the events its callback enqueued (history)
    received,     \* per key: the events the consumer got from map.next() (history)
    wire,         \* per port: the last SysEx message out_conn.send delivered
    sent          \* per port: how many messages out_conn.send delivered

envVars  == <<ports, feed, quota>>
progVars == <<pc, it, handles, desired_names, controllers, chan, cb, map>>
histVars == <<produced, received>>
outVars  == <<wire, sent>>
decVars  == <<msg, decoded>>
vars == <<msg, decoded, pc, it, ports, feed, quota, handles, desired_names,
          controllers, chan, cb, map, produced, received, wire, sent>>

Byte == 0..255

Min(a, b) == IF a <= b THEN a ELSE b

(***************************************************************************)
(* ControllerEvent and Option<ControllerEvent>.  Every value is a record   *)
(* with the same fields; the fields a variant does not have hold "-" or 0. *)
(***************************************************************************)
Event(kind, who, index, row0, col0, state, value) ==
    [kind |-> kind, who |-> who, index |-> index, row |-> row0, col |-> col0,
     state |-> state, value |-> value]

ControlButton(button, state) == Event("ControlButton", button, 0, 0, 0, state, 0)
KnobTurn(knob, value)        == Event("KnobTurn", knob, 0, 0, 0, "-", value)
KnobTouch(knob, state)       == Event("KnobTouch", knob, 0, 0, 0, state, 0)
GridButton(index, row0, col0, state, velocity) ==
    Event("GridButton", "-", index, row0, col0, state, velocity)

\* Option::None
None == Event("None", "-", 0, 0, 0, "-", 0)
\* the panic raised by unreachable!()
Unreachable == Event("unreachable!", "-", 0, 0, 0, "-", 0)
\* from_midi has not been called on msg yet
NotDecoded == Event("NotDecoded", "-", 0, 0, 0, "-", 0)

IsEvent(r) == r.kind \in {"ControlButton", "KnobTurn", "KnobTouch", "GridButton"}

\* a slip in the knob table: Pan and Filter are exchanged
KnobOf_PanFilterSwapped(kn) ==
    CASE kn = 16 -> "Volume"
      [] kn = 17 -> "Filter"
      [] kn = 18 -> "Pan"
      [] kn = 19 -> "Resonance"
      [] kn = 25 -> "Select"
      [] OTHER   -> "unreachable!"

\* match kn { 0x10 => Volume, ... 0x19 => Select, _ => unreachable!() }
KnobOf(kn) ==
    CASE kn = 16 -> "Volume"       \* 0x10
      [] kn = 17 -> "Pan"          \* 0x11
      [] kn = 18 -> "Filter"       \* 0x12
      [] kn = 19 -> "Resonance"    \* 0x13
      [] kn = 25 -> "Select"       \* 0x19
      [] OTHER   -> "unreachable!"

\* match ud { 0x90 => Down, 0x80 => Up, _ => unreachable!() }
StateOf(ud) ==
    CASE ud = 144 -> "Down"        \* 0x90
      [] ud = 128 -> "Up"          \* 0x80
      [] OTHER    -> "unreachable!"

\* match btn { 0x1a => Channel, ... , _ => Mystery }
ButtonOf(btn) ==
    CASE btn = 26 -> "Channel"     \* 0x1a
      [] btn = 31 -> "PatternUp"   \* 0x1f
      [] btn = 32 -> "PatternDown" \* 0x20
      [] btn = 33 -> "Browser"     \* 0x21
      [] btn = 34 -> "GridLeft"    \* 0x22
      [] btn = 35 -> "GridRight"   \* 0x23
      [] btn = 36 -> "Row1"        \* 0x24
      [] btn = 37 -> "Row2"        \* 0x25
      [] btn = 38 -> "Row3"        \* 0x26
      [] btn = 39 -> "Step"        \* 0x27
      [] btn = 45 -> "Note"        \* 0x2d
      [] btn = 46 -> "Drum"        \* 0x2e
      [] btn = 47 -> "Perform"     \* 0x2f
      [] btn = 48 -> "Shift"       \* 0x30
      [] btn = 49 -> "Alt"         \* 0x31
      [] btn = 50 -> "Pattern"     \* 0x32
      [] btn = 51 -> "Play"        \* 0x33
      [] btn = 52 -> "Stop"        \* 0x34
      [] btn = 53 -> "Record"      \* 0x35
      [] OTHER    -> "Mystery"

\* the knob arm: (ud @ (0x90 | 0x80 | 0xb0), kn @ 0x10..=0x19, value)
KnobArm(ud, kn, value) ==
    LET knob == KnobOf(kn) IN
    IF knob = "unreachable!" THEN Unreachable
    ELSE CASE ud = 144 -> KnobTouch(knob, "Down")
           [] ud = 128 -> KnobTouch(knob, "Up")
           [] ud = 176 -> KnobTurn(knob, value)      \* 0xb0
           [] OTHER    -> Unreachable

\* a slip in the labeled-button arm: a code without a name is dropped
ButtonArm_DropsUnmapped(ud, btn) ==
    IF ButtonOf(btn) = "Mystery" THEN None
    ELSE ControlButton(ButtonOf(btn), StateOf(ud))

\* the labeled-button arm: (ud @ (0x90 | 0x80), btn @ 0x1a..=0x35, _)
ButtonArm(ud, btn) ==
    LET state == StateOf(ud) IN
    IF state = "unreachable!" THEN Unreachable
    ELSE ControlButton(ButtonOf(btn), state)

\* the grid arm: (ud @ (0x90 | 0x80), btn @ 0x36..=0x75, vel)
GridArm_ShiftedBase(ud, btn, vel) ==
    LET index == btn - 53 IN
    GridButton(index, index \div 16, index % 16, StateOf(ud), vel)

GridArm(ud, btn, vel) ==
    LET state == StateOf(ud) IN
    IF state = "unreachable!" THEN Unreachable
    ELSE LET index == btn - 54          \* btn - 0x36
             row0  == index \div 16
             col0  == index % 16
         IN  GridButton(index, row0, col0, state, vel)

\* a slip in from_midi: the first three bytes of a longer message are decoded
from_midi_LongerToo(m) ==
    IF Len(m) >= 3
    THEN LET b0 == m[1]
             b1 == m[2]
             b2 == m[3]
         IN  IF b0 \in {144, 128, 176} /\ b1 \in 16..25
             THEN KnobArm(b0, b1, b2)
             ELSE IF b0 \in {144, 128} /\ b1 \in 26..53
             THEN ButtonArm(b0, b1)
             ELSE IF b0 \in {144, 128} /\ b1 \in 54..117
             THEN GridArm(b0, b1, b2)
             ELSE None
    ELSE None

\* ControllerEvent::from_midi: the arms of the match are tried in order.
from_midi(m) ==
    IF Len(m) = 3
    THEN LET b0 == m[1]
             b1 == m[2]
             b2 == m[3]
         IN  IF b0 \in {144, 128, 176} /\ b1 \in 16..25          \* 0x10..=0x19
             THEN KnobArm(b0, b1, b2)
             ELSE IF b0 \in {144, 128} /\ b1 \in 26..53          \* 0x1a..=0x35
             THEN ButtonArm(b0, b1)
             ELSE IF b0 \in {144, 128} /\ b1 \in 54..117         \* 0x36..=0x75
             THEN GridArm(b0, b1, b2)
             ELSE None
    ELSE None

(***************************************************************************)
(* Decoder runs: from_midi applied to one message drawn from DecodeInputs. *)
(***************************************************************************)
\* status bytes: 0x80, 0x90, 0xb0, and bytes that are none of the three
StatusSample == {128, 144, 176, 0, 129, 145, 160, 177, 240, 255}
\* data2 bytes
Data2Sample == {0, 1, 64, 100, 127, 128, 255}

DecodeInputs ==
    {<<>>, <<144>>, <<144, 54>>, <<176, 16>>, <<144, 54, 100, 0>>, <<128, 20, 0, 0>>,
     <<176, 16, 64, 0, 0>>}
    \cup {<<s, d1, d2>> : s \in StatusSample, d1 \in Byte, d2 \in Data2Sample}

\* no program is running: the decoder is called on its own
Idle ==
    /\ pc = "idle"
    /\ it = 0
    /\ ports = <<>>
    /\ feed = {}
    /\ quota = 0
    /\ handles = {}
    /\ desired_names = <<>>
    /\ controllers = <<>>
    /\ chan = <<>>
    /\ cb = <<>>
    /\ map = <<>>
    /\ produced = <<>>
    /\ received = <<>>
    /\ wire = <<>>
    /\ sent = <<>>

DecodeInit ==
    /\ msg \in DecodeInputs
    /\ decoded = NotDecoded
    /\ Idle

Decode ==
    /\ decoded = NotDecoded
    /\ decoded' = from_midi(msg)
    /\ UNCHANGED <<msg, envVars, progVars, histVars, outVars>>

DecodeNext == Decode

DecodeSpec == DecodeInit /\ [][DecodeNext]_vars

(***************************************************************************)
(* Properties of the decoder (DecodeSpec).                                 *)
(***************************************************************************)
\* C1: from_midi is total: for every message it returns one event or None, and
\* never aborts.
C1_DecodeTotal ==
    decoded # NotDecoded => (decoded = None \/ IsEvent(decoded))

\* C2: [s, d1, d2] with s in {0x90, 0x80} and d1 in 0x36..0x75 decodes to
\* GridButton(index, row, col, state, velocity) with index = d1 - 0x36 in 0..63,
\* row = index div 16 in 0..3, col = index mod 16 in 0..15, row*16 + col = index,
\* state Down for 0x90 and Up for 0x80, velocity = d2.
C2_GridButton ==
    (/\ decoded # NotDecoded
     /\ Len(msg) = 3
     /\ msg[1] \in {144, 128}
     /\ msg[2] \in 54..117) =>
        /\ decoded.kind = "GridButton"
        /\ decoded.index = msg[2] - 54
        /\ decoded.index \in 0..63
        /\ decoded.row = decoded.index \div 16
        /\ decoded.row \in 0..3
        /\ decoded.col = decoded.index % 16
        /\ decoded.col \in 0..15
        /\ decoded.row * 16 + decoded.col = decoded.index
        /\ decoded.state = (IF msg[1] = 144 THEN "Down" ELSE "Up")
        /\ decoded.value = msg[3]

\* C2 witness: the last pad released, [0x80, 0x75, 0x7f], decoded.
C2_Witness ==
    /\ msg = <<128, 117, 127>>
    /\ decoded = GridButton(63, 3, 15, "Up", 127)

\* the knob of each assigned code: 0x10 Volume, 0x11 Pan, 0x12 Filter,
\* 0x13 Resonance, 0x19 Select
AssignedKnobs ==
    {<<16, "Volume">>, <<17, "Pan">>, <<18, "Filter">>, <<19, "Resonance">>,
     <<25, "Select">>}

\* C11: for d1 one of 0x10, 0x11, 0x12, 0x13, 0x19 (Volume, Pan, Filter, Resonance,
\* Select), [0x90, d1, d2] decodes to KnobTouch(knob, Down), [0x80, d1, d2] to
\* KnobTouch(knob, Up) and [0xB0, d1, d2] to KnobTurn(knob, d2).
C11_Knobs ==
    \A a \in AssignedKnobs :
        (decoded # NotDecoded /\ Len(msg) = 3 /\ msg[2] = a[1]) =>
            /\ msg[1] = 144 => decoded = KnobTouch(a[2], "Down")
            /\ msg[1] = 128 => decoded = KnobTouch(a[2], "Up")
            /\ msg[1] = 176 => decoded = KnobTurn(a[2], msg[3])

\* C11 witness: the Filter knob turned to 0x64, [0xB0, 0x12, 0x64], decoded.
C11_Witness ==
    /\ msg = <<176, 18, 100>>
    /\ decoded = KnobTurn("Filter", 100)

\* the codes of the labeled-button range 0x1a..0x35 that the match names:
\* 0x1a, 0x1f..0x27 and 0x2d..0x35
NamedCodes == {26} \cup (31..39) \cup (45..53)

\* C12: [s, d1, d2] with s in {0x90, 0x80} and d1 in 0x1A..0x35 decodes to
\* ControlButton(button, state), never to None, with state Down for 0x90 and Up for
\* 0x80; a code the match names gives a named button (0x24 gives Row1) and every
\* other code of the range gives Mystery.
C12_Buttons ==
    (/\ decoded # NotDecoded
     /\ Len(msg) = 3
     /\ msg[1] \in {144, 128}
     /\ msg[2] \in 26..53) =>
        /\ decoded.kind = "ControlButton"
        /\ decoded.state = (IF msg[1] = 144 THEN "Down" ELSE "Up")
        /\ (decoded.who # "Mystery") = (msg[2] \in NamedCodes)
        /\ msg[2] = 36 => decoded.who = "Row1"

\* C12 witness: the unnamed code 0x28 released, decoded to ControlButton(Mystery, Up).
C12_Witness ==
    /\ msg = <<128, 40, 0>>
    /\ decoded = ControlButton("Mystery", "Up")

\* C13: a message whose length is not 3 decodes to None, and so does [s, d1, d2]
\* when s is none of 0x80, 0x90, 0xB0, when d1 is outside 0x10..0x75, or when s is
\* 0xB0 and d1 is outside 0x10..0x19.
C13_NoEvent ==
    (/\ decoded # NotDecoded
     /\ IF Len(msg) # 3 THEN TRUE
        ELSE \/ msg[1] \notin {128, 144, 176}
             \/ msg[2] \notin 16..117
             \/ (msg[1] = 176 /\ msg[2] \notin 16..25)) =>
        decoded = None

\* C13 witness: a message of four bytes that starts like a pad press, decoded to
\* None.
C13_Witness ==
    /\ msg = <<144, 54, 100, 0>>
    /\ decoded = None

\* the variants of ControllerButton other than Mystery
ControllerButtonNames ==
    {"Channel", "PatternUp", "PatternDown", "Browser", "GridLeft", "GridRight",
     "Row1", "Row2", "Row3", "Row4",
     "Step", "Note", "Drum", "Perform", "Shift", "Alt", "Pattern", "Play", "Stop",
     "Record"}

\* the button from_midi gives for [0x90, d1, 0x00], "-" when it gives no
\* ControlButton
ButtonFor(d1) ==
    LET r == from_midi(<<144, d1, 0>>)
    IN  IF r.kind = "ControlButton" THEN r.who ELSE "-"

\* C20: every variant of ControllerButton other than Mystery is decoded from some
\* message, and no two data1 codes decode to the same named button.
C20_ButtonsReachable ==
    decoded # NotDecoded =>
        /\ \A b \in ControllerButtonNames : \E d1 \in Byte : ButtonFor(d1) = b
        /\ \A d1, e1 \in 26..53 :
              (ButtonFor(d1) = ButtonFor(e1) /\ ButtonFor(d1) # "Mystery") => d1 = e1

(***************************************************************************)
(* The LED frame: led_msg_buf and the methods that write it.               *)
(***************************************************************************)
\* the grid has 64 leds: [u8; 7 + 4 * 64 + 1], for i in 0..64
NumPads == 64

\* led_msg_buf.len(): 7 header bytes + (4 bytes per grid led * 64 leds) + 1 end byte
FrameLen == 7 + 4 * NumPads + 1

\* led_msg_buf: [0; 264]
ZeroBuf == [k \in 0..(FrameLen - 1) |-> 0]

\* the result of a method that indexes the buffer: the buffer, and whether an
\* index was out of bounds (Rust panics at the first such index)
Running(buf) == [buf |-> buf, panicked |-> FALSE]

\* a slip in the indexing: an index past the end wraps around the buffer
Store_Wrapping(r, k, v) ==
    [r EXCEPT !.buf[k % FrameLen] = v]

\* self.led_msg_buf[k] = v
Store(r, k, v) ==
    IF r.panicked THEN r
    ELSE IF k \in DOMAIN r.buf THEN [r EXCEPT !.buf[k] = v]
    ELSE [r EXCEPT !.panicked = TRUE]

\* let len: u16 = 4 * 64; the header is f0 47 7f 43 65 (len >> 7) & 0x7f, len & 0x7f
Header ==
    LET len == 4 * NumPads
    IN  <<240, 71, 127, 67, 101, (len \div 128) % 128, len % 128>>

\* for i in 0..64 { self.led_msg_buf[7 + i * 4] = i as u8; }
RECURSIVE InitPads(_, _)
InitPads(buf, i) ==
    IF i >= NumPads THEN buf
    ELSE InitPads([buf EXCEPT ![7 + i * 4] = i], i + 1)

\* a slip in init: the pad index bytes count from 1
init_OneBased(buf) ==
    [k \in DOMAIN buf |->
        IF k < 7 THEN Header[k + 1]
        ELSE IF k = FrameLen - 1 THEN 247
        ELSE IF (k - 7) % 4 = 0 THEN (k - 7) \div 4 + 1
        ELSE buf[k]]

\* FireController::init
init(buf) ==
    LET withHeader == [k \in DOMAIN buf |-> IF k < 7 THEN Header[k + 1] ELSE buf[k]]
        withPads   == InitPads(withHeader, 0)
    IN  [withPads EXCEPT ![FrameLen - 1] = 247]       \* 0xf7

\* a slip in set_led: the clamp is taken modulo 128 instead of min(0x7f, _)
set_led_Wrap(buf, i, r, g, b) ==
    Store(Store(Store(Running(buf),
        7 + i * 4 + 1, r % 128),
        7 + i * 4 + 2, g % 128),
        7 + i * 4 + 3, b % 128)

\* a slip in set_led: the offset of the pad entry forgets the 7 header bytes
set_led_NoHeader(buf, i, r, g, b) ==
    Store(Store(Store(Running(buf),
        i * 4 + 1, Min(127, r)),
        i * 4 + 2, Min(127, g)),
        i * 4 + 3, Min(127, b))

\* FireController::set_led
set_led(buf, i, r, g, b) ==
    Store(Store(Store(Running(buf),
        7 + i * 4 + 1, Min(127, r)),          \* min(0x7f, r)
        7 + i * 4 + 2, Min(127, g)),
        7 + i * 4 + 3, Min(127, b))

\* FireController::set_color_cube, from pad i on
RECURSIVE CubeFrom(_, _)
CubeFrom(buf, i) ==
    IF i >= NumPads THEN buf
    ELSE LET x == i % 4
             y == i \div 16
             z == (i % 16) \div 4
         IN  CubeFrom([buf EXCEPT ![7 + i * 4 + 1] = Min(127, x * 32),   \* x * 0x20
                                  ![7 + i * 4 + 2] = Min(127, y * 32),
                                  ![7 + i * 4 + 3] = Min(127, z * 32)], i + 1)

\* a slip in set_color_cube: the cube is added to the colors the pads have
set_color_cube_Accumulate(buf) ==
    [k \in DOMAIN buf |->
        IF k < 7 \/ k = FrameLen - 1 \/ (k - 7) % 4 = 0 THEN buf[k]
        ELSE LET i == (k - 7) \div 4
                 c == (k - 7) % 4
                 v == IF c = 1 THEN i % 4 ELSE IF c = 2 THEN i \div 16
                      ELSE (i % 16) \div 4
             IN  Min(127, buf[k] + v * 32)]

set_color_cube(buf) == CubeFrom(buf, 0)

(***************************************************************************)
(* Vectors indexed from 0, as Vec<_> is.                                   *)
(***************************************************************************)
VecLen(v) == Cardinality(DOMAIN v)

Push(v, x) == [k \in 0..VecLen(v) |-> IF k \in DOMAIN v THEN v[k] ELSE x]

(***************************************************************************)
(* Port names.  A name is <<head, rest>>: head is the first characters of  *)
(* the name, as many as the prefix has, so name.starts_with(prefix) is     *)
(* head = prefix.                                                          *)
(***************************************************************************)
MIDI_INPUT_PORT_PREFIX == "FL STUDIO FIRE"

starts_with(name, prefix) == name[1] = prefix

Port(name) == [name |-> name, present |-> TRUE]

(***************************************************************************)
(* FireController and update_leds.                                         *)
(***************************************************************************)
Connected(in_port, out_port) ==
    [tag |-> "Connected", in_conn |-> in_port, out_conn |-> out_port]

\* FireController { id, state: Connected(..), event_rx: Some(rx), led_msg_buf: [0; 264] }
NewController(i, in_port, out_port) ==
    [id |-> i, state |-> Connected(in_port, out_port), event_rx |-> TRUE,
     led_msg_buf |-> ZeroBuf]

\* MidiOutputConnection::send: a present device gets the message; what the call
\* returns once the device is gone depends on the backend
SendResults(port) == IF ports[port].present THEN {"Ok"} ELSE {"Ok", "Err"}

\* a slip in update_leds: the header is not part of what is sent
update_leds_Payload(ctl, nextpc) ==
    /\ pc' = nextpc
    /\ wire' = [wire EXCEPT ![ctl.state.out_conn] =
                   [k \in 0..(FrameLen - 9) |-> ctl.led_msg_buf[k + 7]]]
    /\ sent' = [sent EXCEPT ![ctl.state.out_conn] = @ + 1]

\* FireController::update_leds on the controller ctl; the caller goes on at nextpc,
\* unless send fails and unwrap() panics
update_leds(ctl, nextpc) ==
    IF ctl.state.tag = "Connected"
    THEN \E res \in SendResults(ctl.state.out_conn) :
            IF res = "Ok"
            THEN /\ pc' = nextpc
                 /\ wire' = [wire EXCEPT ![ctl.state.out_conn] = ctl.led_msg_buf]
                 /\ sent' = [sent EXCEPT ![ctl.state.out_conn] = @ + 1]
            ELSE /\ pc' = "panicked"
                 /\ UNCHANGED outVars
    ELSE /\ pc' = nextpc
         /\ UNCHANGED outVars

(***************************************************************************)
(* Frame runs: one controller, as attach_to_all constructs it, and a       *)
(* caller of its methods.                                                  *)
(***************************************************************************)
\* update_leds calls in a frame run
MaxSends == 2

\* pad indices passed to set_led: the first pad, the last pad, and indices past it
PadSample == {0, 63, 64, 255}

\* (r, g, b) passed to set_led: what main passes, and values on both sides of 0x7f
ColorSample ==
    {<<0, 0, 0>>, <<127, 127, 127>>, <<64, 128, 255>>, <<255, 1, 126>>, <<128, 200, 0>>}

FirePort32 == Port(<<MIDI_INPUT_PORT_PREFIX, ":FL STUDIO FIRE MIDI 1 32:0">>)

FrameInit ==
    /\ msg = <<>>
    /\ decoded = NotDecoded
    /\ pc = "constructed"
    /\ it = 0
    /\ ports = Push(<<>>, FirePort32)
    /\ feed = {}
    /\ quota = 0
    /\ handles = {}
    /\ desired_names = <<>>
    /\ controllers = Push(<<>>, NewController(0, 0, 0))
    /\ chan = <<>>
    /\ cb = <<>>
    /\ map = <<>>
    /\ produced = <<>>
    /\ received = <<>>
    /\ wire = Push(<<>>, <<>>)
    /\ sent = Push(<<>>, 0)

frameFixed == <<decVars, envVars, it, handles, desired_names, chan, cb, map, histVars>>

\* controller.init()
CallInit ==
    /\ pc = "constructed"
    /\ controllers' = [controllers EXCEPT ![0].led_msg_buf = init(@)]
    /\ pc' = "api"
    /\ UNCHANGED <<frameFixed, outVars>>

\* c.set_led(i, r, g, b)
CallSetLed(i, rgb) ==
    /\ pc = "api"
    /\ LET r == set_led(controllers[0].led_msg_buf, i, rgb[1], rgb[2], rgb[3])
       IN  /\ controllers' = [controllers EXCEPT ![0].led_msg_buf = r.buf]
           /\ pc' = IF r.panicked THEN "panicked" ELSE "api"
    /\ UNCHANGED <<frameFixed, outVars>>

\* c.set_color_cube()
CallSetColorCube ==
    /\ pc = "api"
    /\ controllers' = [controllers EXCEPT ![0].led_msg_buf = set_color_cube(@)]
    /\ UNCHANGED <<pc, frameFixed, outVars>>

\* c.update_leds()
CallUpdateLeds ==
    /\ pc = "api"
    /\ sent[0] < MaxSends
    /\ update_leds(controllers[0], "api")
    /\ UNCHANGED <<controllers, frameFixed>>

FrameNext ==
    \/ CallInit
    \/ \E i \in PadSample, rgb \in ColorSample : CallSetLed(i, rgb)
    \/ CallSetColorCube
    \/ CallUpdateLeds

FrameSpec == FrameInit /\ [][FrameNext]_vars

(***************************************************************************)
(* Properties of the LED frame (FrameSpec).                                *)
(***************************************************************************)
TheFrame == controllers[0].led_msg_buf

\* the bytes of a frame that are not colors are those init() writes
FixedBytesOk(buf) ==
    /\ DOMAIN buf = 0..263
    /\ <<buf[0], buf[1], buf[2], buf[3], buf[4], buf[5], buf[6]>>
          = <<240, 71, 127, 67, 101, 2, 0>>         \* F0 47 7F 43 65 02 00
    /\ \A i \in 0..63 : buf[7 + 4 * i] = i
    /\ buf[263] = 247                               \* F7

ColorOffsets == {7 + 4 * i + c : i \in 0..63, c \in 1..3}

\* C4: in every state after init(), whatever set_led, set_color_cube and
\* update_leds calls were made, the 7 header bytes, the 64 pad index bytes and the
\* terminator are as init() wrote them, and every color byte is in 0..127.
C4_FrameInvariant ==
    pc \in {"api", "panicked"} =>
        /\ FixedBytesOk(TheFrame)
        /\ \A k \in ColorOffsets : TheFrame[k] \in 0..127

\* C4 witness: after a color cube, a set_led of the last pad with values above 127
\* and two update_leds calls.
C4_Witness ==
    /\ pc = "api"
    /\ sent[0] = 2
    /\ TheFrame[7 + 4 * 1 + 1] = 32
    /\ <<TheFrame[260], TheFrame[261], TheFrame[262]>> = <<127, 127, 0>>

\* C5: the step that runs init() leaves the 264-byte frame with the header
\* F0 47 7F 43 65 02 00, the byte i at offset 7+4i for every pad i, and F7 last.
C5_InitFrame ==
    [][(pc = "constructed" /\ pc' = "api") => FixedBytesOk(TheFrame')]_vars

\* C5 witness: the state right after init(): nothing sent, every color still 0.
C5_Witness ==
    /\ pc = "api"
    /\ sent[0] = 0
    /\ TheFrame[5] = 2
    /\ TheFrame[7 + 4 * 63] = 63
    /\ \A k \in ColorOffsets : TheFrame[k] = 0

Clamp127(c) == IF c > 127 THEN 127 ELSE c

\* C6: set_led(i, r, g, b) with i in 0..63 stores r, g, b, each replaced by 127
\* when above 127, at offsets 7+4i+1, 7+4i+2, 7+4i+3, changes no other byte of the
\* frame, and does not fail.
C6_SetLed ==
    [][\A i \in PadSample \cap (0..63), rgb \in ColorSample :
          CallSetLed(i, rgb) =>
              /\ pc' = "api"
              /\ TheFrame' = [k \in 0..263 |->
                                 IF k = 7 + 4 * i + 1 THEN Clamp127(rgb[1])
                                 ELSE IF k = 7 + 4 * i + 2 THEN Clamp127(rgb[2])
                                 ELSE IF k = 7 + 4 * i + 3 THEN Clamp127(rgb[3])
                                 ELSE TheFrame[k]]]_vars

\* C6 witness: pad 63 holds (64, 127, 127), stored by set_led(63, 64, 128, 255),
\* while pad 0 holds another color set before.
C6_Witness ==
    /\ pc = "api"
    /\ <<TheFrame[260], TheFrame[261], TheFrame[262]>> = <<64, 127, 127>>
    /\ <<TheFrame[8], TheFrame[9], TheFrame[10]>> = <<127, 1, 126>>

\* the color set_color_cube gives pad i
CubeColor(i) ==
    <<Clamp127(32 * (i % 4)), Clamp127(32 * (i \div 16)), Clamp127(32 * ((i % 16) \div 4))>>

\* the frame buf with the colors of all pads replaced by the cube's
CubeOver(buf) ==
    [k \in 0..263 |->
        IF k >= 7 /\ k < 263 /\ (k - 7) % 4 # 0
        THEN CubeColor((k - 7) \div 4)[(k - 7) % 4]
        ELSE buf[k]]

\* C14: from any reachable frame, set_color_cube sets the color of every pad i in
\* 0..63 to (min(127, 32*(i mod 4)), min(127, 32*(i div 16)),
\* min(127, 32*((i mod 16) div 4))) whatever the colors were and changes nothing
\* else, so calling it twice gives the same frame as calling it once.
C14_ColorCube ==
    pc = "api" =>
        \E once \in {set_color_cube(TheFrame)} :
            /\ once = CubeOver(TheFrame)
            /\ set_color_cube(once) = once

\* C14 witness: the frame holds the cube, and the last frame sent had another color
\* for pad 63, which the cube has replaced.
C14_Witness ==
    /\ pc = "api"
    /\ sent[0] = 1
    /\ wire[0][260] = 127
    /\ TheFrame = CubeOver(TheFrame)
    /\ <<TheFrame[260], TheFrame[261], TheFrame[262]>> = <<96, 96, 96>>

\* C15: a call of update_leds sends exactly one message, the 264 bytes of the frame
\* as stored, and leaves the frame as it was.
C15_UpdateLeds ==
    [][CallUpdateLeds =>
          /\ sent'[0] = sent[0] + 1
          /\ wire'[0] = TheFrame
          /\ DOMAIN wire'[0] = 0..263
          /\ TheFrame' = TheFrame]_vars

\* C15 witness: one message sent, equal to the stored frame, whose pad 0 is lit.
C15_Witness ==
    /\ pc = "api"
    /\ sent[0] = 1
    /\ wire[0] = TheFrame
    /\ <<TheFrame[0], TheFrame[8], TheFrame[263]>> = <<240, 127, 247>>

\* C16: set_led with a pad index in 64..255 panics and changes no byte of the
\* frame: not the terminator, not a header byte, not a pad entry.
C16_SetLedOutOfRange ==
    /\ [][\A i \in PadSample \ (0..63), rgb \in ColorSample :
             CallSetLed(i, rgb) => (pc' = "panicked" /\ TheFrame' = TheFrame)]_vars
    /\ [](pc = "api" =>
            \A i \in 64..255 : set_led(TheFrame, i, 127, 127, 127).panicked)

\* C16 witness: set_led has panicked on a frame whose pad 0 was lit before, and the
\* frame still has its header, that color and its terminator.
C16_Witness ==
    /\ pc = "panicked"
    /\ FixedBytesOk(TheFrame)
    /\ <<TheFrame[8], TheFrame[9], TheFrame[10]>> = <<127, 127, 127>>

(***************************************************************************)
(* The bounded channel of tokio::sync::mpsc, one per controller.           *)
(***************************************************************************)
\* mpsc::channel::<ControllerEvent>(100)
ChannelCapacity == 100

\* mpsc::channel: an empty buffer, the Sender tx and the Receiver rx alive
NewChannel == [buf |-> <<>>, tx |-> TRUE, rx |-> TRUE]

\* a slip in try_send: a full buffer drops the event and reports success
try_send_DropWhenFull(ch, e) ==
    IF ~ch.rx THEN [chan |-> ch, res |-> "Closed"]
    ELSE IF Len(ch.buf) >= ChannelCapacity THEN [chan |-> ch, res |-> "Ok"]
    ELSE [chan |-> [ch EXCEPT !.buf = Append(@, e)], res |-> "Ok"]

\* a slip in try_send: the buffer is not bounded
try_send_Unbounded(ch, e) ==
    IF ~ch.rx THEN [chan |-> ch, res |-> "Closed"]
    ELSE [chan |-> [ch EXCEPT !.buf = Append(@, e)], res |-> "Ok"]

\* Sender::try_send: never waits; Err(Closed) without a receiver, Err(Full) when
\* the buffer holds its capacity
try_send(ch, e) ==
    IF ~ch.rx THEN [chan |-> ch, res |-> "Closed"]
    ELSE IF Len(ch.buf) >= ChannelCapacity THEN [chan |-> ch, res |-> "Full"]
    ELSE [chan |-> [ch EXCEPT !.buf = Append(@, e)], res |-> "Ok"]

\* a slip in the receiver: the newest buffered event is taken first
poll_recv_Newest(ch) ==
    IF ch.buf # <<>>
    THEN [chan |-> [ch EXCEPT !.buf = SubSeq(@, 1, Len(@) - 1)],
          poll |-> "Some", item |-> ch.buf[Len(ch.buf)]]
    ELSE IF ~ch.tx THEN [chan |-> ch, poll |-> "None", item |-> None]
    ELSE [chan |-> ch, poll |-> "Pending", item |-> None]

\* a slip in the receiver: an empty buffer is taken for the end of the stream
poll_recv_EndWhenEmpty(ch) ==
    IF ch.buf # <<>>
    THEN [chan |-> [ch EXCEPT !.buf = Tail(@)], poll |-> "Some", item |-> Head(ch.buf)]
    ELSE [chan |-> ch, poll |-> "None", item |-> None]

\* Receiver as a Stream, poll_next: the oldest buffered event; the end of the
\* stream once the buffer is empty and the sender is dropped; else Pending
poll_recv(ch) ==
    IF ch.buf # <<>>
    THEN [chan |-> [ch EXCEPT !.buf = Tail(@)], poll |-> "Some", item |-> Head(ch.buf)]
    ELSE IF ~ch.tx THEN [chan |-> ch, poll |-> "None", item |-> None]
    ELSE [chan |-> ch, poll |-> "Pending", item |-> None]

(***************************************************************************)
(* The environment of a program run: the MIDI ports of the system and the  *)
(* messages the devices send.                                              *)
(***************************************************************************)
\* event messages the devices send in a run with ordinary traffic
MaxEvents == 3

FirePort36 == Port(<<MIDI_INPUT_PORT_PREFIX, ":FL STUDIO FIRE MIDI 1 36:0">>)
\* on Windows every Fire reports the bare name
FirePortWin == Port(<<MIDI_INPUT_PORT_PREFIX, "">>)
ThroughPort == Port(<<"Midi Through:", "Midi Through Port-0 14:0">>)

Vec1(a) == Push(<<>>, a)
Vec2(a, b) == Push(Vec1(a), b)
Vec3(a, b, c) == Push(Vec2(a, b), c)

\* the systems a run starts on: no Fire, one Fire, two on Linux, two on Windows
Systems ==
    {Vec1(ThroughPort), Vec1(FirePort32), Vec3(FirePort32, ThroughPort, FirePort36),
     Vec2(FirePortWin, FirePortWin)}

\* ordinary traffic: pad 5 pressed [90 3b 64] and released [80 3b 00], a two-byte
\* message [90 36], and a touch of the unassigned knob code 0x14 [90 14 00]
Traffic == {<<144, 59, 100>>, <<128, 59, 0>>, <<144, 54>>, <<144, 20, 0>>}

\* a burst: pad 0 pressed [90 36 7f], over and over
Burst == {<<144, 54, 127>>}

FirePorts == {p \in DOMAIN ports : starts_with(ports[p].name, MIDI_INPUT_PORT_PREFIX)}

Init ==
    /\ msg = <<>>
    /\ decoded = NotDecoded
    /\ pc = "walk"
    /\ it = 0
    /\ ports \in Systems
    /\ \/ feed = Traffic /\ quota = MaxEvents
       \/ ports = Vec1(FirePort32) /\ feed = Burst /\ quota = ChannelCapacity + 1
    /\ handles = {}
    /\ desired_names = <<>>
    /\ controllers = <<>>
    /\ chan = <<>>
    /\ cb = <<>>
    /\ map = <<>>
    /\ produced = <<>>
    /\ received = <<>>
    /\ wire = [p \in DOMAIN ports |-> <<>>]
    /\ sent = [p \in DOMAIN ports |-> 0]

\* the process is running: main has neither returned nor panicked, and no callback
\* has aborted the process
Alive == pc \notin {"done", "panicked", "aborted"}

(***************************************************************************)
(* attach_to_all, one action per port lookup.                              *)
(***************************************************************************)
\* ports().into_iter().filter_map(..): the names with the prefix, in port order
RECURSIVE NamesFrom(_, _)
NamesFrom(p, acc) ==
    IF p \notin DOMAIN ports THEN acc
    ELSE IF ports[p].present /\ starts_with(ports[p].name, MIDI_INPUT_PORT_PREFIX)
         THEN NamesFrom(p + 1, Push(acc, ports[p].name))
         ELSE NamesFrom(p + 1, acc)

\* ports().into_iter().find_map(..): the first port with that name, -1 for None
find_port(name) ==
    LET found == {p \in DOMAIN ports : ports[p].present /\ ports[p].name = name}
    IN  IF found = {} THEN -1 ELSE CHOOSE p \in found : \A q \in found : p <= q

\* lines 185-195: walk_in and desired_names
AttachWalk ==
    /\ pc = "walk"
    /\ handles' = handles \cup {<<"walk_in", 0>>}
    /\ desired_names' = NamesFrom(0, <<>>)
    /\ it' = 0
    /\ pc' = "attach"
    /\ UNCHANGED <<decVars, envVars, controllers, chan, cb, map, histVars, outVars>>

\* lines 198-201: midi_in, midi_out and the channel of iteration it
AttachOpen ==
    /\ pc = "attach"
    /\ it \in DOMAIN desired_names
    /\ handles' = handles \cup {<<"midi_in", it>>, <<"midi_out", it>>}
    /\ chan' = Push(chan, NewChannel)
    /\ produced' = Push(produced, <<>>)
    /\ pc' = "connect_in"
    /\ UNCHANGED <<decVars, envVars, it, desired_names, controllers, cb, map,
                   received, outVars>>

\* connect() on a port another connection of this process already holds: whether
\* the system allows it depends on the backend
ConnectResults(held) == IF held THEN {"Ok", "Err"} ELSE {"Ok"}

\* lines 203-215: the input port is looked up and connected; the callback is live
AttachConnectIn ==
    /\ pc = "connect_in"
    /\ LET in_port == find_port(desired_names[it])
       IN  IF in_port = -1
           THEN /\ pc' = "panicked"
                /\ UNCHANGED <<handles, cb>>
           ELSE \E res \in ConnectResults(\E c \in DOMAIN cb : cb[c].port = in_port) :
                   IF res = "Ok"
                   THEN /\ handles' = (handles \ {<<"midi_in", it>>})
                                         \cup {<<"in_conn", it>>}
                        /\ cb' = Push(cb, [state |-> "live", port |-> in_port])
                        /\ pc' = "connect_out"
                   ELSE /\ pc' = "panicked"
                        /\ UNCHANGED <<handles, cb>>
    /\ UNCHANGED <<decVars, envVars, it, desired_names, controllers, chan, map,
                   histVars, outVars>>

\* lines 218-237: the output port is looked up and connected, the controller is
\* constructed, initialized and pushed
AttachConnectOut ==
    /\ pc = "connect_out"
    /\ LET out_port == find_port(desired_names[it])
       IN  IF out_port = -1
           THEN /\ pc' = "panicked"
                /\ UNCHANGED <<handles, controllers, it>>
           ELSE \E res \in ConnectResults(\E c \in DOMAIN controllers :
                                             controllers[c].state.out_conn = out_port) :
                   IF res = "Ok"
                   THEN /\ handles' = (handles \ {<<"midi_out", it>>})
                                         \cup {<<"out_conn", it>>}
                        /\ controllers' =
                              Push(controllers,
                                   [NewController(it, cb[it].port, out_port)
                                       EXCEPT !.led_msg_buf = init(@)])
                        /\ it' = it + 1
                        /\ pc' = "attach"
                   ELSE /\ pc' = "panicked"
                        /\ UNCHANGED <<handles, controllers, it>>
    /\ UNCHANGED <<decVars, envVars, desired_names, chan, cb, map, histVars, outVars>>

\* lines 240-241 and 299-301: the loop is over, walk_in is dropped, main goes on
AttachReturn ==
    /\ pc = "attach"
    /\ it \notin DOMAIN desired_names
    /\ handles' = handles \ {<<"walk_in", 0>>}
    /\ it' = 0
    /\ pc' = IF VecLen(controllers) = 0 THEN "loop" ELSE "setup"
    /\ UNCHANGED <<decVars, envVars, desired_names, controllers, chan, cb, map,
                   histVars, outVars>>

(***************************************************************************)
(* main: the setup loop and the consumer loop over the StreamMap.          *)
(***************************************************************************)
Restrict(f, S) == [k \in S |-> f[k]]

\* StreamMap::insert(k, rx)
map_insert(m, k, rx) == [j \in DOMAIN m \cup {k} |-> IF j = k THEN rx ELSE m[j]]

\* lines 303-310: one iteration of the setup loop (cube is the controller once
\* set_color_cube has run)
Setup ==
    /\ pc = "setup"
    /\ it \in DOMAIN controllers
    /\ \E cube \in {[controllers[it] EXCEPT !.led_msg_buf = set_color_cube(@)]} :
           /\ update_leds(cube, IF it + 1 \in DOMAIN controllers THEN "setup" ELSE "loop")
           /\ IF pc' = "panicked"
              THEN /\ controllers' = [controllers EXCEPT ![it] = cube]
                   /\ UNCHANGED <<map, received, it>>
              ELSE /\ controllers' = [controllers EXCEPT ![it] =
                                         [cube EXCEPT !.event_rx = FALSE]]
                   /\ IF cube.event_rx                 \* c.event_rx.take()
                      THEN /\ map' = map_insert(map, it, it)
                           /\ received' = Push(received, <<>>)
                      ELSE UNCHANGED <<map, received>>
                   /\ it' = it + 1
    /\ UNCHANGED <<decVars, envVars, handles, desired_names, chan, cb, produced>>

\* the entries of the StreamMap whose stream has ended
Ended(m) == {k \in DOMAIN m : poll_recv(chan[m[k]]).poll = "None"}

\* the entries of the StreamMap with an event ready
Ready(m) == {k \in DOMAIN m : poll_recv(chan[m[k]]).poll = "Some"}

\* a slip in the loop body: the event is applied to the first controller, whatever
\* the key
LoopBody_FirstController(k, evt) ==
    IF k \notin DOMAIN controllers
    THEN /\ pc' = "panicked"
         /\ UNCHANGED <<controllers, outVars>>
    ELSE IF evt.kind = "GridButton"
    THEN \E level \in {IF evt.state = "Down" THEN 127 ELSE 0} :
         \E r \in {set_led(controllers[0].led_msg_buf, evt.index, level, level, level)} :
         \E lit \in {[controllers[0] EXCEPT !.led_msg_buf = r.buf]} :
             /\ controllers' = [controllers EXCEPT ![0] = lit]
             /\ IF r.panicked
                THEN /\ pc' = "panicked"
                     /\ UNCHANGED outVars
                ELSE update_leds(lit, "loop")
    ELSE UNCHANGED <<pc, controllers, outVars>>

\* the body of the while loop for (k, evt): lines 313-324
LoopBody(k, evt) ==
    IF k \notin DOMAIN controllers
    THEN /\ pc' = "panicked"                       \* get_mut(i).unwrap()
         /\ UNCHANGED <<controllers, outVars>>
    ELSE IF evt.kind = "GridButton"
    THEN \E level \in {IF evt.state = "Down" THEN 127 ELSE 0} :
         \E r \in {set_led(controllers[k].led_msg_buf, evt.index, level, level, level)} :
         \E lit \in {[controllers[k] EXCEPT !.led_msg_buf = r.buf]} :
             /\ controllers' = [controllers EXCEPT ![k] = lit]
             /\ IF r.panicked
                THEN /\ pc' = "panicked"
                     /\ UNCHANGED outVars
                ELSE update_leds(lit, "loop")
    ELSE UNCHANGED <<pc, controllers, outVars>>

\* map.next().await yields (k, evt): the poll went over the entries from a random
\* start, removed the ended ones it met (gone) and stopped at the ready entry k;
\* then the loop body runs
ConsumerYield(k, gone) ==
    /\ pc = "loop"
    /\ k \in Ready(map)
    /\ gone \subseteq Ended(map)
    /\ LET got == poll_recv(chan[map[k]])
       IN  /\ chan' = [chan EXCEPT ![map[k]] = got.chan]
           /\ received' = [received EXCEPT ![k] = Append(@, got.item)]
           /\ LoopBody(k, got.item)
    /\ map' = Restrict(map, DOMAIN map \ gone)
    /\ UNCHANGED <<decVars, envVars, it, handles, desired_names, cb, produced>>

\* map.next().await finds no entry ready: the ended entries are removed and the
\* consumer stays suspended, as some entry is still open
ConsumerPending ==
    /\ pc = "loop"
    /\ Ready(map) = {}
    /\ Ended(map) # {}
    /\ Ended(map) # DOMAIN map
    /\ map' = Restrict(map, DOMAIN map \ Ended(map))
    /\ UNCHANGED <<decVars, envVars, pc, it, handles, desired_names, controllers, chan,
                   cb, histVars, outVars>>

\* map.next().await returns None: no entry is left once the ended ones are removed;
\* the while loop exits and main returns
ConsumerEnd ==
    /\ pc = "loop"
    /\ Ended(map) = DOMAIN map
    /\ map' = <<>>
    /\ pc' = "done"
    /\ UNCHANGED <<decVars, envVars, it, handles, desired_names, controllers, chan,
                   cb, histVars, outVars>>

(***************************************************************************)
(* The input callback of controller c, run by the driver's thread for the  *)
(* message m: lines 211-215.                                               *)
(***************************************************************************)
\* a panic in the callback: the driver's thread unwinds, which drops the closure
\* and its Sender, or the process aborts (a callback entered from foreign code, or
\* panic = "abort")
CallbackPanics(c) ==
    \E how \in {"unwind", "abort"} :
        IF how = "unwind"
        THEN /\ cb' = [cb EXCEPT ![c].state = "panicked"]
             /\ chan' = [chan EXCEPT ![c].tx = FALSE]
             /\ UNCHANGED pc
        ELSE /\ pc' = "aborted"
             /\ UNCHANGED <<cb, chan>>

Callback(c, m) ==
    /\ Alive
    /\ c \in DOMAIN cb
    /\ cb[c].state = "live"
    /\ ports[cb[c].port].present
    /\ m \in feed
    /\ LET event == from_midi(m)
       IN  IF event = Unreachable
           THEN /\ CallbackPanics(c)
                /\ UNCHANGED <<quota, produced>>
           ELSE IF event = None
           THEN UNCHANGED <<quota, pc, cb, chan, produced>>
           ELSE /\ quota > 0
                /\ quota' = quota - 1
                /\ LET r == try_send(chan[c], event)
                   IN  IF r.res = "Ok"
                       THEN /\ chan' = [chan EXCEPT ![c] = r.chan]
                            /\ produced' = [produced EXCEPT ![c] = Append(@, event)]
                            /\ UNCHANGED <<pc, cb>>
                       ELSE /\ CallbackPanics(c)           \* expect("Send exploded")
                            /\ UNCHANGED produced
    /\ UNCHANGED <<decVars, ports, feed, it, handles, desired_names, controllers, map,
                   received, outVars>>

\* the device on port p is unplugged, or its connection fails: nothing in the
\* program runs
Disconnect(p) ==
    /\ Alive
    /\ p \in FirePorts
    /\ ports[p].present
    /\ ports' = [ports EXCEPT ![p].present = FALSE]
    /\ UNCHANGED <<decVars, feed, quota, progVars, histVars, outVars>>

Next ==
    \/ AttachWalk
    \/ AttachOpen
    \/ AttachConnectIn
    \/ AttachConnectOut
    \/ AttachReturn
    \/ Setup
    \/ \E k \in DOMAIN map, gone \in SUBSET (DOMAIN map) : ConsumerYield(k, gone)
    \/ ConsumerPending
    \/ ConsumerEnd
    \/ \E c \in DOMAIN cb, m \in feed : Callback(c, m)
    \/ \E p \in DOMAIN ports : Disconnect(p)

Spec == Init /\ [][Next]_vars

(***************************************************************************)
(* Properties of the program (Spec).                                       *)
(***************************************************************************)
\* what the consumer received with key k so far
ReceivedOf(k) == IF k \in DOMAIN received THEN received[k] ELSE <<>>

\* C3: for every session, the events the consumer received with that session's key,
\* followed by the events still in the session's queue, are the events the
\* session's callback enqueued, in the order it enqueued them: nothing is lost,
\* duplicated or reordered within a session.
C3_PerSessionOrder ==
    \A c \in DOMAIN produced : ReceivedOf(c) \o chan[c].buf = produced[c]

\* C3 witness: two sessions; the consumer received two different events of the
\* first, in order, and one of the second.
C3_Witness ==
    /\ VecLen(received) = 2
    /\ Len(received[0]) = 2
    /\ received[0][1] # received[0][2]
    /\ received[0] = produced[0]
    /\ Len(received[1]) = 1

\* C7: no session's queue ever holds more than 100 events.
C7_QueueBounded ==
    \A c \in DOMAIN chan : Len(chan[c].buf) <= 100

\* C7 witness: a queue holding 100 events.
C7_Witness ==
    \E c \in DOMAIN chan : Len(chan[c].buf) = 100

\* C8: a callback whose message decodes to an event while the queue is full does
\* not enqueue the event and panics (its thread ends or the process aborts); it
\* does not wait for the consumer, and a callback that has panicked never runs
\* again; a callback whose message decodes to None changes neither the queue
\* nor the state of the callback or of the process.
C8_OverflowIsFatal ==
    /\ [][\A c \in DOMAIN cb, m \in feed :
            Callback(c, m) =>
                /\ (IsEvent(from_midi(m)) /\ Len(chan[c].buf) >= ChannelCapacity) =>
                      /\ chan'[c].buf = chan[c].buf
                      /\ produced' = produced
                      /\ (pc' = "aborted" \/ cb'[c].state = "panicked")
                /\ from_midi(m) = None =>
                      /\ chan' = chan
                      /\ cb' = cb
                      /\ pc' = pc]_vars
    /\ [](\A c \in DOMAIN cb, m \in feed :
            /\ (cb[c].state = "panicked" \/ pc = "aborted") => ~ENABLED Callback(c, m)
            /\ (/\ Alive
                /\ cb[c].state = "live"
                /\ ports[cb[c].port].present
                /\ quota > 0
                /\ Len(chan[c].buf) >= ChannelCapacity) => ENABLED Callback(c, m))

\* C8 witness: the burst overflowed the queue: the callback has panicked, the queue
\* still holds its 100 events and the 101st is in no queue.
C8_Witness ==
    /\ feed = Burst
    /\ 0 \in DOMAIN cb
    /\ cb[0].state = "panicked"
    /\ Len(chan[0].buf) = ChannelCapacity
    /\ Len(produced[0]) = ChannelCapacity
    /\ quota = 0

\* C9: the consumer loop has ended only if every session's sender is dropped and
\* its queue is drained; while some session's source is open the multiplexer
\* cannot report the end; and an entry with a buffered event can be yielded
\* whatever the other sessions' state.
C9_EndsOnlyWhenAllEnded ==
    /\ pc = "done" => \A c \in DOMAIN chan : ~chan[c].tx /\ chan[c].buf = <<>>
    /\ (pc = "loop" /\ \E c \in DOMAIN chan : chan[c].tx \/ chan[c].buf # <<>>)
          => ~ENABLED ConsumerEnd
    /\ pc = "loop" =>
          \A k \in DOMAIN map : chan[map[k]].buf # <<>> => ENABLED ConsumerYield(k, {})

\* C9 witness: the loop ended with two sessions, after events of both were
\* received.
C9_Witness ==
    /\ pc = "done"
    /\ VecLen(controllers) = 2
    /\ received[0] # <<>>
    /\ received[1] # <<>>

\* C10: once every device has disconnected, no session is Connected any more and
\* the consumer loop is not stuck: it can go on to its normal end.
C10_DisconnectEndsLoop ==
    (/\ pc = "loop"
     /\ controllers # <<>>
     /\ \A p \in FirePorts : ~ports[p].present) =>
        /\ \A c \in DOMAIN controllers : controllers[c].state.tag # "Connected"
        /\ ENABLED Next


\* the LED frame of session j is the same before and after the step
FrameKept(j) == controllers'[j].led_msg_buf = controllers[j].led_msg_buf

\* C17: a callback step (a message arriving, decoded, enqueued) changes no LED
\* frame and no queue but its own session's; a step of the setup loop or of the
\* consumer loop on one session (set_color_cube, set_led, update_leds, a dequeue)
\* changes neither the LED frame nor the queue of any other session.
C17_SessionsOwnTheirState ==
    [][/\ \A c \in DOMAIN cb, m \in feed :
             Callback(c, m) =>
                 /\ DOMAIN controllers' = DOMAIN controllers
                 /\ \A j \in DOMAIN controllers : FrameKept(j)
                 /\ \A j \in DOMAIN chan \ {c} : chan'[j] = chan[j]
       /\ \A k \in DOMAIN map, gone \in SUBSET (DOMAIN map) :
             ConsumerYield(k, gone) =>
                 /\ \A j \in DOMAIN controllers \ {k} : FrameKept(j)
                 /\ \A j \in DOMAIN chan \ {k} : chan'[j] = chan[j]
       /\ Setup =>
                 /\ \A j \in DOMAIN controllers \ {it} : FrameKept(j)
                 /\ chan' = chan]_vars

\* C17 witness: two sessions; pad 5 of the first is lit by its own event, pad 5 of
\* the second still has its cube color, and an event of the second is still queued.
C17_Witness ==
    /\ pc = "loop"
    /\ VecLen(controllers) = 2
    /\ <<controllers[0].led_msg_buf[28], controllers[1].led_msg_buf[28]>> = <<127, 32>>
    /\ received[0] # <<>>
    /\ chan[0].buf = <<>>
    /\ chan[1].buf # <<>>

\* the handles that enumerate ports, and the handles of open connections
EnumerationHandles == {h \in handles : h[1] \in {"walk_in", "midi_in", "midi_out"}}
ConnectionHandles == {h \in handles : h[1] \in {"in_conn", "out_conn"}}

\* C18: during attach_to_all no enumeration handle is open at the same time as a
\* connection handle: the enumeration handle is released before the first port is
\* connected.
C18_NoHandleOverlap ==
    EnumerationHandles = {} \/ ConnectionHandles = {}


\* s is an initial part of t
IsPrefix(s, t) == Len(s) <= Len(t) /\ s = SubSeq(t, 1, Len(s))

\* C19: the ids of the sessions are their positions in the returned list, hence
\* pairwise distinct; every key of the multiplexer is the position of a session,
\* bound to that session's queue, and what the consumer received with a key was
\* enqueued by that session's callback, so the lookup controllers.get_mut(i)
\* never fails; and a consumer step for an event of session k sends LED frames to
\* no device but the one session k's callback listens to.
C19_KeysAreSessions ==
    /\ [](\A c \in DOMAIN controllers : controllers[c].id = c)
    /\ [](\A k \in DOMAIN map : k \in DOMAIN controllers /\ map[k] = k)
    /\ [](\A k \in DOMAIN received : IsPrefix(received[k], produced[k]))
    /\ [][\A k \in DOMAIN map, gone \in SUBSET (DOMAIN map) :
             ConsumerYield(k, gone) =>
                 \A p \in DOMAIN ports :
                     (wire'[p] # wire[p] \/ sent'[p] # sent[p]) => p = cb[k].port]_vars

=============================================================================
